---- MODULE Spec2Model ----
(***************************************************************************)
(* env.sh, the placeholder substitutor of Vite-Dynamic-Environment-        *)
(* Variables (src/README.md lines 205-242), as a state machine.            *)
(*                                                                         *)
(* Text is a sequence of one-character strings, so that the word           *)
(* splitting of the shell, the line matching of grep, the field splitting  *)
(* of read and the parsing sed does of its s command are computed          *)
(* character by character, as the tools do.                                *)
(***************************************************************************)
EXTENDS Integers, Sequences, FiniteSets, TLC

VARIABLES env, files, files0, broken, pc, words, dir, lines, key, value,
          status, out, exit

vars == <<env, files, files0, broken, pc, words, dir, lines, key, value,
          status, out, exit>>

----------------------------------------------------------------------------
(* Bounds of the model.                                                    *)

MaxRoots == 3       \* most words in ASSET_DIRS
MaxVars == 2        \* most substitution variables in the environment

----------------------------------------------------------------------------
(* Names and texts.                                                        *)

APP_PREFIX == <<"A","P","P","_","P","R","E","F","I","X">>
ASSET_DIRS == <<"A","S","S","E","T","_","D","I","R","S">>
ASSET_DIR == <<"A","S","S","E","T","_","D","I","R">>

PA == <<"P","A">>
PB == <<"P","B">>
PAP == <<"P","A","P">>

\* the file tree before the run; c is the content of a/f
InitialTree(c) ==
  (<<"a","/","f">> :> c) @@ (<<"a","/","s","/","g">> :> <<"P","B">>) @@
  (<<"b","/","f">> :> <<"h","P","A">>) @@ (<<"o","/","f">> :> <<"P","A","P","B">>)

\* the directories that exist; "n" names no directory
DirsOnDisk == {<<"a">>, <<"a","/","s">>, <<"b">>, <<"o">>}

----------------------------------------------------------------------------
(* Text helpers.                                                           *)

IsPrefixOf(p, s) ==
  /\ Len(p) <= Len(s)
  /\ \A i \in 1..Len(p) : p[i] = s[i]

\* the fields of s between occurrences of the character sep
RECURSIVE SplitFrom(_, _, _, _)
SplitFrom(s, sep, i, cur) ==
  IF i > Len(s) THEN <<cur>>
  ELSE IF s[i] = sep THEN <<cur>> \o SplitFrom(s, sep, i + 1, <<>>)
  ELSE SplitFrom(s, sep, i + 1, Append(cur, s[i]))

SplitOn(s, sep) == SplitFrom(s, sep, 1, <<>>)

RECURSIVE Flatten(_)
Flatten(ss) == IF ss = <<>> THEN <<>> ELSE Head(ss) \o Flatten(Tail(ss))

----------------------------------------------------------------------------
(* The shell.                                                              *)

IsSet(e, name) == \E i \in 1..Len(e) : e[i].name = name

\* $name: the value, or the empty text when name is unset
Param(e, name) ==
  IF IsSet(e, name)
  THEN e[CHOOSE i \in 1..Len(e) : e[i].name = name].value
  ELSE <<>>

\* ${name?}: fails only when name is unset
UnsetOnly(e, name) == ~IsSet(e, name)

\* ${name:?}: fails when name is unset or null
NullOrUnset(e, name) == ~IsSet(e, name) \/ Param(e, name) = <<>>

\* set +e: a failing command is ignored
ErrExitOff(st) == FALSE

\* set -e: a command that fails ends the shell that runs it
ErrExit(st) == st # 0

\* unquoted $ASSET_DIRS: field splitting on blanks
SplitWords(s) == SelectSeq(SplitOn(s, " "), LAMBDA w : w # <<>>)

\* env: one NAME=VALUE text per variable, cut into lines
EnvLines(e) ==
  Flatten([i \in 1..Len(e) |-> SplitOn(e[i].name \o <<"=">> \o e[i].value, "\n")])

\* one atom of a basic regular expression against one character
MatchChar(r, c) == r = "." \/ r = c

\* the regular expression re matches s at position i
MatchesAt(re, s, i) ==
  /\ i + Len(re) - 1 <= Len(s)
  /\ \A j \in 1..Len(re) : MatchChar(re[j], s[i + j - 1])

\* grep "^${APP_PREFIX}"
Grep(ls, prefix) == SelectSeq(ls, LAMBDA l : MatchesAt(prefix, l, 1))

\* IFS='=' read -r key value
Read(line) ==
  LET eqs == {i \in 1..Len(line) : line[i] = "="} IN
  IF eqs = {} THEN [key |-> line, value |-> <<>>]
  ELSE
    LET i == CHOOSE m \in eqs : \A n \in eqs : m <= n
        rest == SubSeq(line, i + 1, Len(line))
        n == Len(rest)
    IN [key |-> SubSeq(line, 1, i - 1),
        value |-> IF /\ n > 0
                     /\ rest[n] = "="
                     /\ \A j \in 1..(n - 1) : rest[j] # "="
                  THEN SubSeq(rest, 1, n - 1)
                  ELSE rest]

----------------------------------------------------------------------------
(* sed.                                                                    *)

\* "s|${key}|${value}|g"
SedScript(k, v) == <<"s","|">> \o k \o <<"|">> \o v \o <<"|","g">>

\* the first unescaped delimiter d of s at or after i; 0 when there is none
RECURSIVE NextDelim(_, _, _)
NextDelim(s, i, d) ==
  IF i > Len(s) THEN 0
  ELSE IF s[i] = "\\" THEN NextDelim(s, i + 2, d)
  ELSE IF s[i] = d THEN i
  ELSE NextDelim(s, i + 1, d)

\* the flags of an s command: g, or w followed by a file name
RECURSIVE ParseFlags(_, _, _)
ParseFlags(fl, i, acc) ==
  IF i > Len(fl) THEN acc
  ELSE IF fl[i] = "g" THEN ParseFlags(fl, i + 1, [acc EXCEPT !.g = TRUE])
  ELSE IF fl[i] = "w" /\ i < Len(fl)
       THEN [acc EXCEPT !.wfile = SubSeq(fl, i + 1, Len(fl))]
  ELSE [acc EXCEPT !.ok = FALSE]

\* the s command sed reads in script
ParseS(script) ==
  LET d == script[2]
      e1 == NextDelim(script, 3, d)
      e2 == IF e1 = 0 THEN 0 ELSE NextDelim(script, e1 + 1, d)
  IN IF e1 = 0 \/ e2 = 0 \/ e1 = 3
     THEN [ok |-> FALSE, regex |-> <<>>, repl |-> <<>>, g |-> FALSE, wfile |-> <<>>]
     ELSE ParseFlags(SubSeq(script, e2 + 1, Len(script)), 1,
                     [ok |-> TRUE, regex |-> SubSeq(script, 3, e1 - 1),
                      repl |-> SubSeq(script, e1 + 1, e2 - 1),
                      g |-> FALSE, wfile |-> <<>>])

\* the text a replacement writes for the matched text m
RECURSIVE Expand(_, _, _)
Expand(repl, i, m) ==
  IF i > Len(repl) THEN <<>>
  ELSE IF repl[i] = "\\" THEN <<repl[i + 1]>> \o Expand(repl, i + 2, m)
  ELSE IF repl[i] = "&" THEN m \o Expand(repl, i + 1, m)
  ELSE <<repl[i]>> \o Expand(repl, i + 1, m)

\* the line s after the s command cmd, from position i on
RECURSIVE SubstFrom(_, _, _, _)
SubstFrom(s, i, cmd, done) ==
  IF i > Len(s) THEN <<>>
  ELSE IF MatchesAt(cmd.regex, s, i) /\ (cmd.g \/ ~done)
       THEN Expand(cmd.repl, 1, SubSeq(s, i, i + Len(cmd.regex) - 1))
            \o SubstFrom(s, i + Len(cmd.regex), cmd, TRUE)
  ELSE <<s[i]>> \o SubstFrom(s, i + 1, cmd, done)

Subst(s, cmd) == SubstFrom(s, 1, cmd, FALSE)

\* sed -i cmd over the files of order, one after the other; bad are the
\* files that cannot be read or written; wout is the text written by w
RECURSIVE SedFiles(_, _, _, _, _)
SedFiles(fs, order, cmd, bad, acc) ==
  IF order = <<>> THEN acc
  ELSE
    LET f == Head(order) IN
    IF f \in bad
    THEN SedFiles(fs, Tail(order), cmd, bad, [acc EXCEPT !.status = 1])
    ELSE
      LET new == Subst(fs[f], cmd)
          hit == \E i \in 1..Len(fs[f]) : MatchesAt(cmd.regex, fs[f], i)
      IN SedFiles(fs, Tail(order), cmd, bad,
                  [acc EXCEPT !.files[f] = new,
                              !.wout = IF hit THEN @ \o new \o <<"\n">> ELSE @])

\* find "$dir" -type f
FilesUnder(fs, d) == {p \in DOMAIN fs : IsPrefixOf(d \o <<"/">>, p)}

\* the orders in which find may hand the files over
FindOrders(fs, d) ==
  LET S == FilesUnder(fs, d)
      n == Cardinality(S)
  IN {o \in [1..n -> S] : \A i, j \in 1..n : o[i] = o[j] => i = j}

\* find ... -exec sed -i "s|${key}|${value}|g" {} +
FindSed(fs, order, k, v, bad) ==
  LET cmd == ParseS(SedScript(k, v)) IN
  IF order = <<>> THEN [files |-> fs, status |-> 0]
  ELSE IF ~cmd.ok THEN [files |-> fs, status |-> 1]
  ELSE
    LET r == SedFiles(fs, order, cmd, bad, [files |-> fs, status |-> 0, wout |-> <<>>])
    IN [files |-> IF cmd.wfile = <<>> THEN r.files
                  ELSE (cmd.wfile :> r.wout) @@ r.files,
        status |-> r.status]

----------------------------------------------------------------------------
(* The environments and trees a run starts from.                           *)

RootNames == {"a", "b", "n"}

RECURSIVE Join(_)
Join(ws) ==
  IF ws = <<>> THEN <<>>
  ELSE IF Len(ws) = 1 THEN <<ws[1]>>
  ELSE <<ws[1], " ">> \o Join(Tail(ws))

RootLists == UNION {[1..n -> RootNames] : n \in 0..MaxRoots}

PrefixValues == {<<>>, <<"P">>, PA, <<"P",".">>}

PrefixEntries ==
  {<<>>} \cup {<<[name |-> APP_PREFIX, value |-> p]>> : p \in PrefixValues}

DirsEntries ==
  {<<>>} \cup {<<[name |-> ASSET_DIRS, value |-> Join(ws)]>> : ws \in RootLists}
         \cup {<<[name |-> ASSET_DIR, value |-> <<"a">>]>>}

Values ==
  {<<"h">>, <<>>, <<"&">>, <<"|">>, <<"\\">>, <<"h","=">>, PB, <<"h","|","w">>}

PlainValues == {<<"h">>}

VarNames == {PA, PB, PAP}

VarLists(vals) ==
  UNION {{vs \in [1..n -> [name : VarNames, value : vals]] :
            \A i, j \in 1..n : vs[i].name = vs[j].name => i = j}
         : n \in 0..MaxVars}

Contents == {<<"P","A","h","P","A","P","B">>, <<"P","P","A","B">>, <<"h","h">>}

\* the settings the README shows as working
UsualPrefix == {<<[name |-> APP_PREFIX, value |-> <<"P">>]>>}

UsualDirs ==
  {<<[name |-> ASSET_DIRS, value |-> w]>> : w \in {<<"a">>, <<"n"," ","a"," ","b">>}}

UsualContent == <<"P","A","h","P","A","P","B">>

Start(e, c, bad) ==
  /\ env = e
  /\ files = InitialTree(c)
  /\ files0 = InitialTree(c)
  /\ broken = bad
  /\ pc = "prefix"
  /\ words = <<>>
  /\ dir = <<>>
  /\ lines = <<>>
  /\ key = <<>>
  /\ value = <<>>
  /\ status = 0
  /\ out = <<>>
  /\ exit = -1

\* a variable outside the prefix whose value has two lines, the second of
\* which reads like an assignment: env prints the value as it is
TwoLineVar ==
  <<[name |-> <<"Q">>, value |-> <<"h", "\n", "P", "B", "=", "w">>]>>

\* any configuration with plain values, the usual one with any values, or
\* the usual one with the two-line variable
Init ==
  \/ \E pe \in PrefixEntries, de \in DirsEntries, vs \in VarLists(PlainValues),
        bad \in {{}, {<<"a","/","f">>}} :
       Start(pe \o de \o vs, UsualContent, bad)
  \/ \E pe \in UsualPrefix, de \in UsualDirs, vs \in VarLists(Values), c \in Contents :
       Start(pe \o de \o vs, c, {})
  \/ \E pe \in UsualPrefix, c \in Contents :
       Start(pe \o <<[name |-> ASSET_DIRS, value |-> <<"a">>]>> \o TwoLineVar, c, {})

----------------------------------------------------------------------------
(* The script, statement by statement.                                     *)

\* : "${APP_PREFIX:?...}"
CheckPrefix ==
  /\ pc = "prefix"
  /\ IF NullOrUnset(env, APP_PREFIX)
     THEN /\ out' = Append(out, [t |-> "fatal", what |-> APP_PREFIX])
          /\ exit' = 1
          /\ pc' = "done"
     ELSE /\ pc' = "dirs"
          /\ UNCHANGED <<out, exit>>
  /\ UNCHANGED <<env, files, files0, broken, words, dir, lines, key, value, status>>

\* : "${ASSET_DIRS:?...}" and the expansion of the for list
CheckDirs ==
  /\ pc = "dirs"
  /\ IF NullOrUnset(env, ASSET_DIRS)
     THEN /\ out' = Append(out, [t |-> "fatal", what |-> ASSET_DIRS])
          /\ exit' = 1
          /\ pc' = "done"
          /\ UNCHANGED words
     ELSE /\ pc' = "for"
          /\ words' = SplitWords(Param(env, ASSET_DIRS))
          /\ UNCHANGED <<out, exit>>
  /\ UNCHANGED <<env, files, files0, broken, dir, lines, key, value, status>>

\* for dir in $ASSET_DIRS; ... done, and the end of the script
ForDir ==
  /\ pc = "for"
  /\ IF words = <<>>
     THEN /\ pc' = "done"
          /\ exit' = 0
          /\ UNCHANGED <<dir, words>>
     ELSE /\ pc' = "test"
          /\ dir' = Head(words)
          /\ words' = Tail(words)
          /\ UNCHANGED exit
  /\ UNCHANGED <<env, files, files0, broken, lines, key, value, status, out>>

\* the same test going on to the pipeline without the line of the root
TestDirQuiet ==
  /\ pc = "test"
  /\ IF dir \notin DirsOnDisk
     THEN /\ out' = Append(out, [t |-> "warning", what |-> dir])
          /\ pc' = "for"
     ELSE /\ pc' = "pipe"
          /\ UNCHANGED out
  /\ UNCHANGED <<env, files, files0, broken, words, dir, lines, key, value, status, exit>>

\* if [ ! -d "$dir" ]; then echo "Warning: ..."; continue; fi
TestDir ==
  /\ pc = "test"
  /\ IF dir \notin DirsOnDisk
     THEN /\ out' = Append(out, [t |-> "warning", what |-> dir])
          /\ pc' = "for"
     ELSE /\ pc' = "scan"
          /\ UNCHANGED out
  /\ UNCHANGED <<env, files, files0, broken, words, dir, lines, key, value, status, exit>>

\* echo "Scanning directory: $dir"
EchoScanning ==
  /\ pc = "scan"
  /\ out' = Append(out, [t |-> "scanning", what |-> dir])
  /\ pc' = "pipe"
  /\ UNCHANGED <<env, files, files0, broken, words, dir, lines, key, value, status, exit>>

\* env | grep "^${APP_PREFIX}" | while ...: the lines the loop will read
StartPipeline ==
  /\ pc = "pipe"
  /\ lines' = Grep(EnvLines(env), Param(env, APP_PREFIX))
  /\ status' = 0
  /\ pc' = "read"
  /\ UNCHANGED <<env, files, files0, broken, words, dir, key, value, out, exit>>

\* while IFS='=' read -r key value
ReadLine ==
  /\ pc = "read"
  /\ IF lines = <<>>
     THEN /\ pc' = "wait"
          /\ UNCHANGED <<lines, key, value>>
     ELSE /\ key' = Read(Head(lines)).key
          /\ value' = Read(Head(lines)).value
          /\ lines' = Tail(lines)
          /\ pc' = "echo"
  /\ UNCHANGED <<env, files, files0, broken, words, dir, status, out, exit>>

\* echo "  * Replacing ${key} -> ${value}"
EchoReplacing ==
  /\ pc = "echo"
  /\ out' = Append(out, [t |-> "replacing", what |-> key, with |-> value, at |-> dir])
  /\ pc' = "find"
  /\ UNCHANGED <<env, files, files0, broken, words, dir, lines, key, value, status, exit>>

\* the same command reading the files as they were before the run
FindAndSedPristine ==
  /\ pc = "find"
  /\ \E order \in FindOrders(files, dir) :
       LET r == FindSed(files0, order, key, value, broken) IN
       /\ files' = r.files
       /\ status' = r.status
       /\ pc' = IF ErrExit(r.status) THEN "wait" ELSE "read"
  /\ UNCHANGED <<env, files0, broken, words, dir, lines, key, value, out, exit>>

\* find "$dir" -type f -exec sed -i "s|${key}|${value}|g" {} +
\* under set -e, in the subshell of the pipeline
FindAndSed ==
  /\ pc = "find"
  /\ \E order \in FindOrders(files, dir) :
       LET r == FindSed(files, order, key, value, broken) IN
       /\ files' = r.files
       /\ status' = r.status
       /\ pc' = IF ErrExit(r.status) THEN "wait" ELSE "read"
  /\ UNCHANGED <<env, files0, broken, words, dir, lines, key, value, out, exit>>

\* the pipeline has ended with the status of the while loop; set -e
PipelineEnd ==
  /\ pc = "wait"
  /\ IF ErrExit(status)
     THEN /\ exit' = 1
          /\ pc' = "done"
     ELSE /\ pc' = "for"
          /\ UNCHANGED exit
  /\ UNCHANGED <<env, files, files0, broken, words, dir, lines, key, value, status, out>>

Next ==
  \/ CheckPrefix
  \/ CheckDirs
  \/ ForDir
  \/ TestDir
  \/ EchoScanning
  \/ StartPipeline
  \/ ReadLine
  \/ EchoReplacing
  \/ FindAndSed
  \/ PipelineEnd

Spec == Init /\ [][Next]_vars

----------------------------------------------------------------------------
(* Successive starts of the container: the entrypoint runs env.sh again    *)
(* over the files the previous start left, with the values the new         *)
(* environment gives to the same variables.                                *)

\* the files as the image was built
Built == InitialTree(UsualContent)

\* the values a later start may give to the variables
RestartValues == {<<"h">>, <<"x">>}

\* the environment with every substitution variable set to v
WithValue(e, v) ==
  [i \in 1..Len(e) |->
     IF e[i].name \in VarNames THEN [name |-> e[i].name, value |-> v] ELSE e[i]]

Restart ==
  /\ pc = "done"
  /\ \E v \in RestartValues : env' = WithValue(env, v)
  /\ files0' = files
  /\ pc' = "prefix"
  /\ words' = <<>>
  /\ dir' = <<>>
  /\ lines' = <<>>
  /\ key' = <<>>
  /\ value' = <<>>
  /\ status' = 0
  /\ out' = <<>>
  /\ exit' = -1
  /\ UNCHANGED <<files, broken>>

InitRestart ==
  \E pe \in UsualPrefix, de \in UsualDirs, vs \in VarLists(PlainValues) :
    Start(pe \o de \o vs, UsualContent, {})

NextRestart ==
  \/ Next
  \/ Restart

SpecRestart == InitRestart /\ [][NextRestart]_vars

----------------------------------------------------------------------------
(* What the claims speak of, read off the environment and the trees.       *)

\* the text of variable name, empty when it is absent
Setting(name) ==
  IF \E i \in 1..Len(env) : env[i].name = name
  THEN env[CHOOSE i \in 1..Len(env) : env[i].name = name].value
  ELSE <<>>

ConfigValid == Setting(APP_PREFIX) # <<>> /\ Setting(ASSET_DIRS) # <<>>

\* the configured keys: the variables whose name starts with the prefix
ConfiguredKeys ==
  {env[i].name : i \in {j \in 1..Len(env) : IsPrefixOf(Setting(APP_PREFIX), env[j].name)}}

\* the configured roots, in order
Roots == SelectSeq(SplitOn(Setting(ASSET_DIRS), " "), LAMBDA w : w # <<>>)

RootSet == {Roots[i] : i \in 1..Len(Roots)}

UnderRoot(p, r) == IsPrefixOf(r \o <<"/">>, p)

\* k occurs in s, character for character
OccursAt(k, s, i) == i + Len(k) - 1 <= Len(s) /\ SubSeq(s, i, i + Len(k) - 1) = k

Occurs(k, s) == \E i \in 1..Len(s) : OccursAt(k, s, i)

\* s with every occurrence of k, left to right, replaced by the text v
RECURSIVE LiteralFrom(_, _, _, _)
LiteralFrom(s, i, k, v) ==
  IF i > Len(s) THEN <<>>
  ELSE IF OccursAt(k, s, i)
       THEN v \o LiteralFrom(s, i + Len(k), k, v)
  ELSE <<s[i]>> \o LiteralFrom(s, i + 1, k, v)

LiteralReplace(s, k, v) == LiteralFrom(s, 1, k, v)

Logged(t, what) == \E i \in 1..Len(out) : out[i].t = t /\ out[i].what = what

----------------------------------------------------------------------------
(* C1: when APP_PREFIX or ASSET_DIRS is unset or empty the run ends with   *)
(* a non-zero exit before any work: it never gets past the two checks, no  *)
(* root is scanned, no substitution is announced and every file keeps the  *)
(* content it had before the run.                                          *)
C1_ConfigError ==
  ~ConfigValid =>
    /\ pc \in {"prefix", "dirs", "done"}
    /\ files = files0
    /\ \A i \in 1..Len(out) : out[i].t \notin {"scanning", "replacing", "warning"}
    /\ pc = "done" => exit = 1

\* an empty prefix with roots and a matching variable present, run to its end
C1_Witness ==
  /\ pc = "done"
  /\ exit = 1
  /\ \E i \in 1..Len(env) : env[i].name = APP_PREFIX /\ env[i].value = <<>>
  /\ Setting(ASSET_DIRS) = <<"a">>
  /\ \E i \in 1..Len(env) : env[i].name = PA
  /\ Logged("fatal", APP_PREFIX)

----------------------------------------------------------------------------
(* C8: when a file under the root being processed cannot be read or        *)
(* written, the find/sed command fails, the loop over the keys stops       *)
(* there, and the script ends at once with a non-zero exit: nothing is     *)
(* echoed or modified after the failing command and no step follows the    *)
(* end of the run.                                                         *)
C8_FailFast ==
  [][/\ (pc = "find" /\ \E f \in broken : UnderRoot(f, dir))
          => (pc' = "wait" /\ status' # 0)
     /\ (pc = "wait" /\ status # 0)
          => (pc' = "done" /\ exit' = 1 /\ files' = files /\ out' = out
              /\ lines' = lines /\ words' = words)
     /\ pc # "done"]_vars

\* a run ended by an unreadable file while a key and a root were still to come
C8_Witness ==
  /\ pc = "done"
  /\ exit = 1
  /\ status # 0
  /\ \E f \in broken : UnderRoot(f, dir)
  /\ lines # <<>>
  /\ words # <<>>
  /\ \A i \in 1..Len(words) : words[i] \in DirsOnDisk

----------------------------------------------------------------------------
(* The substitutions of a run applied in the reverse order of the keys.    *)

\* the pairs the loop reads, in the order of the environment
Pairs ==
  LET ls == Grep(EnvLines(env), Setting(APP_PREFIX))
  IN [i \in 1..Len(ls) |-> Read(ls[i])]

Reverse(s) == [i \in 1..Len(s) |-> s[Len(s) + 1 - i]]

ExistingRoots == SelectSeq(Roots, LAMBDA r : r \in DirsOnDisk)

RECURSIVE ApplyKeys(_, _, _)
ApplyKeys(fs, d, ps) ==
  IF ps = <<>> THEN [files |-> fs, status |-> 0]
  ELSE
    LET o == CHOOSE x \in FindOrders(fs, d) : TRUE
        r == FindSed(fs, o, Head(ps).key, Head(ps).value, broken)
    IN IF r.status # 0 THEN r ELSE ApplyKeys(r.files, d, Tail(ps))

RECURSIVE ApplyRoots(_, _, _)
ApplyRoots(fs, rs, ps) ==
  IF rs = <<>> THEN [files |-> fs, status |-> 0]
  ELSE
    LET r == ApplyKeys(fs, Head(rs), ps)
    IN IF r.status # 0 THEN r ELSE ApplyRoots(r.files, Tail(rs), ps)

\* every file under a configured root holds what the reverse order leaves
SameAsReverse ==
  LET r == ApplyRoots(files0, ExistingRoots, Reverse(Pairs))
  IN \A p \in DOMAIN files0 :
       (\E d \in RootSet : UnderRoot(p, d)) => files[p] = r.files[p]

\* a run that applied two configured keys, neither a substring of the other
TwoKeys ==
  /\ pc = "done"
  /\ exit = 0
  /\ Len(Pairs) = 2
  /\ Pairs[1].key # Pairs[2].key
  /\ {Pairs[1].key, Pairs[2].key} = ConfiguredKeys
  /\ ~Occurs(Pairs[1].key, Pairs[2].key)
  /\ ~Occurs(Pairs[2].key, Pairs[1].key)

\* a proper suffix of k1 is a prefix of k2
Overlaps(k1, k2) ==
  \E n \in 1..(Len(k1) - 1) :
    n <= Len(k2) /\ SubSeq(k1, Len(k1) - n + 1, Len(k1)) = SubSeq(k2, 1, n)

\* the text sed writes in place of the key of pair p
Written(p) == Expand(ParseS(SedScript(p.key, p.value)).repl, 1, p.key)

\* the text written for p is not empty and has no character of the key k
Apart(p, k) ==
  /\ Written(p) # <<>>
  /\ \A i \in 1..Len(Written(p)) : \A j \in 1..Len(k) : Written(p)[i] # k[j]

(* C4 as stated: for two configured keys neither of which is a substring   *)
(* of the other, and any values and file content, applying K1 then K2      *)
(* leaves the files as applying K2 then K1 does.                           *)
C4_AnyValues == TwoKeys => SameAsReverse

(* C4, amended: for two configured keys where neither is a substring of    *)
(* the other and no proper suffix of one is a prefix of the other, and     *)
(* where the text written in place of each key is not empty and has no     *)
(* character of the other key, a run that applies K1 then K2 and exits 0   *)
(* leaves every file under the roots as applying K2 then K1 does.          *)
C4_Commute ==
  ( /\ TwoKeys
    /\ ~Overlaps(Pairs[1].key, Pairs[2].key)
    /\ ~Overlaps(Pairs[2].key, Pairs[1].key)
    /\ Apart(Pairs[1], Pairs[2].key)
    /\ Apart(Pairs[2], Pairs[1].key) )
  => SameAsReverse

\* both keys occurred in a/f and the run replaced them
C4_Witness ==
  /\ TwoKeys
  /\ ~Overlaps(Pairs[1].key, Pairs[2].key)
  /\ ~Overlaps(Pairs[2].key, Pairs[1].key)
  /\ Apart(Pairs[1], Pairs[2].key)
  /\ Apart(Pairs[2], Pairs[1].key)
  /\ Occurs(Pairs[1].key, files0[<<"a","/","f">>])
  /\ Occurs(Pairs[2].key, files0[<<"a","/","f">>])
  /\ ~Occurs(Pairs[1].key, files[<<"a","/","f">>])
  /\ ~Occurs(Pairs[2].key, files[<<"a","/","f">>])

----------------------------------------------------------------------------
\* the files under a configured root that exists
Scanned == {p \in DOMAIN files0 : \E d \in RootSet \cap DirsOnDisk : UnderRoot(p, d)}

(* C2: after a run that exits 0, a file under a scanned root that held a   *)
(* configured key before the run holds no occurrence of that key.          *)
C2_Completeness ==
  (pc = "done" /\ exit = 0) =>
    \A k \in ConfiguredKeys : \A p \in Scanned :
      Occurs(k, files0[p]) => ~Occurs(k, files[p])

(* C3: each time a configured key is applied to a root, every readable     *)
(* file under the root comes out with every occurrence of the key's name   *)
(* replaced by the value the environment holds for it, character for       *)
(* character.                                                              *)
C3_Literal ==
  [][(pc = "find" /\ key \in ConfiguredKeys)
       => \A f \in FilesUnder(files, dir) \ broken :
            files'[f] = LiteralReplace(files[f], key, Setting(key))]_vars

(* C5: at the end of a run with a valid configuration and no unreadable    *)
(* file, the exit status is 0, every configured root that is not a         *)
(* directory has its warning, and every configured key has been applied    *)
(* to every root that is one.                                              *)
C5_MissingRoots ==
  (pc = "done" /\ ConfigValid /\ broken = {}) =>
    /\ exit = 0
    /\ \A d \in RootSet \ DirsOnDisk : Logged("warning", d)
    /\ \A d \in RootSet \cap DirsOnDisk : \A k \in ConfiguredKeys :
         \E i \in 1..Len(out) :
           out[i].t = "replacing" /\ out[i].what = k /\ out[i].at = d

(* C6: the run creates no file and deletes none, and a file that lies      *)
(* under no configured root keeps its content.                             *)
C6_Isolation ==
  /\ DOMAIN files = DOMAIN files0
  /\ \A p \in DOMAIN files0 :
       (~\E d \in RootSet : UnderRoot(p, d)) => files[p] = files0[p]

(* C7: a file that held no occurrence of any configured key before the     *)
(* run has the same content after it.                                      *)
C7_NoPlaceholder ==
  pc = "done" =>
    \A p \in DOMAIN files0 :
      (\A k \in ConfiguredKeys : ~Occurs(k, files0[p])) => files[p] = files0[p]

(* C9: with a valid configuration, every file readable and no variable     *)
(* whose name starts with the prefix, the run exits 0 and leaves every     *)
(* file as it was.                                                         *)
C9_EmptyMatch ==
  (pc = "done" /\ ConfigValid /\ broken = {} /\ ConfiguredKeys = {}) =>
    (exit = 0 /\ files = files0)

\* the environment of the README's docker-compose file
ComposeEnv ==
  <<[name |-> APP_PREFIX, value |-> <<"P">>],
    [name |-> ASSET_DIR, value |-> <<"a">>],
    [name |-> PA, value |-> <<"h">>]>>

(* C10: run with the environment of the README's docker-compose file, the  *)
(* script scans the directory ASSET_DIR names and replaces the placeholder *)
(* in the files under it.                                                  *)
C10_AssetDir ==
  (pc = "done" /\ env = ComposeEnv) =>
    /\ exit = 0
    /\ Logged("scanning", <<"a">>)
    /\ files[<<"a","/","f">>] = LiteralReplace(files0[<<"a","/","f">>], PA, <<"h">>)

----------------------------------------------------------------------------
\* the text s with each configured key, in the order of the environment,
\* replaced by the value the environment gives it
RECURSIVE WithSettings(_, _)
WithSettings(s, ps) ==
  IF ps = <<>> THEN s
  ELSE WithSettings(LiteralReplace(s, Head(ps).key, Head(ps).value), Tail(ps))

(* C11: after any sequence of starts over the same files, each with its    *)
(* own value for the same key, a start that exits 0 leaves every file      *)
(* under a scanned root holding, where the built file held a placeholder,  *)
(* the value the environment of that start gives for the key.              *)
C11_LatestValue ==
  (pc = "done" /\ exit = 0) =>
    \A p \in Scanned : files[p] = WithSettings(Built[p], Pairs)

----------------------------------------------------------------------------
(* C12: the keys a run applies are exactly the environment variables whose *)
(* name begins with the prefix, character for character: every key         *)
(* announced is the name of such a variable, and a run that exits 0 after  *)
(* scanning an existing root has announced each of them.                   *)
C12_KeySelection ==
  /\ \A i \in 1..Len(out) :
       out[i].t = "replacing" => out[i].what \in ConfiguredKeys
  /\ (pc = "done" /\ exit = 0 /\ ExistingRoots # <<>>) =>
       \A k \in ConfiguredKeys : \E i \in 1..Len(out) :
         out[i].t = "replacing" /\ out[i].what = k

----------------------------------------------------------------------------
\* what a run over the root r announces when it selects the pairs ps: a
\* warning when r is missing, else the line of the root and one line for
\* each selected key, in order
LogOf(r, ps) ==
  IF r \notin DirsOnDisk THEN <<[t |-> "warning", what |-> r]>>
  ELSE <<[t |-> "scanning", what |-> r]>> \o
       [j \in 1..Len(ps) |->
          [t |-> "replacing", what |-> ps[j].key, with |-> ps[j].value, at |-> r]]

RECURSIVE LogOfAll(_, _)
LogOfAll(rs, ps) ==
  IF rs = <<>> THEN <<>> ELSE LogOf(Head(rs), ps) \o LogOfAll(Tail(rs), ps)

\* the log of a whole run: the roots one at a time, in the order configured
ExpectedLog == LogOfAll(Roots, Pairs)

\* the roots and keys are announced in order, each at most once for each
\* place of the root in the list
InOrder == ConfigValid => IsPrefixOf(out, ExpectedLog)

\* a file changes only in the find command of the key and root announced
\* last, after the line of that root; a key announced is then applied
AnnouncedFirst ==
  /\ files' # files =>
       /\ pc = "find"
       /\ out # <<>>
       /\ out[Len(out)] = [t |-> "replacing", what |-> key, with |-> value, at |-> dir]
       /\ Logged("scanning", dir)
  /\ pc = "echo" => pc' = "find"
  /\ pc = "find" => pc' \in {"read", "wait"}

Times(k, d) ==
  Cardinality({i \in 1..Len(out) :
                 out[i].t = "replacing" /\ out[i].what = k /\ out[i].at = d})

\* the commands one root can take: for, test, echo, the pipeline, three for
\* each selected line, the read that finds no line, the end of the pipeline;
\* env prints one line for each variable and one more for the second line
\* of a value
PerRoot == 6 + 3 * (Len(env) + 1)

\* a bound on the commands the run has left
Left ==
  CASE pc = "done" -> 0
    [] pc = "prefix" -> MaxRoots * PerRoot + 3
    [] pc = "dirs" -> MaxRoots * PerRoot + 2
    [] pc = "for" -> Len(words) * PerRoot + 1
    [] pc = "test" -> Len(words) * PerRoot + PerRoot
    [] pc = "scan" -> Len(words) * PerRoot + PerRoot - 1
    [] pc = "pipe" -> Len(words) * PerRoot + PerRoot - 2
    [] pc = "read" -> Len(words) * PerRoot + 3 * Len(lines) + 3
    [] pc = "echo" -> Len(words) * PerRoot + 3 * Len(lines) + 5
    [] pc = "find" -> Len(words) * PerRoot + 3 * Len(lines) + 4
    [] pc = "wait" -> Len(words) * PerRoot + 2

\* the run is at a command whose guard holds: every command but find runs
\* whenever the run is at it, and find runs once it has an order to take
Runnable ==
  \/ pc \in {"prefix", "dirs", "for", "test", "scan", "pipe", "read", "echo", "wait"}
  \/ pc = "find" /\ FindOrders(files, dir) # {}

\* the run ends: while it has not, a command can run, and every command
\* lowers the bound on the commands left
Ends == [](pc = "done" \/ Runnable) /\ [][Left' < Left]_vars

(* C13 as stated: roots in order, the line of the root before any change   *)
(* under it, the line of the key before any change with it, every pair of  *)
(* an existing root and a matching key applied exactly once by the end of  *)
(* the run, and the run ends.                                              *)
C13_ExactlyOnce ==
  /\ []InOrder
  /\ [][AnnouncedFirst]_vars
  /\ []((pc = "done" /\ ConfigValid) =>
          \A d \in RootSet \cap DirsOnDisk : \A k \in ConfiguredKeys : Times(k, d) = 1)
  /\ Ends

(* C13: roots are handled in the order configured; the line of the root is *)
(* announced before any file under it changes and the line of the key      *)
(* before any file changes with that key; a run that exits 0 has announced *)
(* and applied every selected key once for each place an existing root has *)
(* in the list, in order, and nothing else; and every run ends.            *)
C13_Ordering ==
  /\ []InOrder
  /\ [][AnnouncedFirst]_vars
  /\ []((pc = "done" /\ exit = 0) => out = ExpectedLog)
  /\ Ends

\* a run over a missing root and two existing ones with two keys, ended
\* with exit 0 and every line announced
C13_Witness ==
  /\ pc = "done"
  /\ exit = 0
  /\ Roots = <<<<"n">>, <<"a">>, <<"b">>>>
  /\ Len(Pairs) = 2
  /\ out = ExpectedLog
  /\ files # files0

----------------------------------------------------------------------------
(* C14: when the configuration is valid and no variable has a name that    *)
(* starts with the prefix, a run that ends has reported, for every         *)
(* existing root it scanned, that no key was found.                        *)
C14_ZeroKeys ==
  (pc = "done" /\ ConfigValid /\ ConfiguredKeys = {}) =>
    \A d \in RootSet \cap DirsOnDisk :
      Logged("scanning", d) => Logged("nokeys", d)
====
